---- MODULE Spec2Model ----
(***************************************************************************)
(* City endpoints of api/modules/city/views.py as a state machine.         *)
(*                                                                         *)
(* The state is the relational store the handlers share (City, Trip,       *)
(* CityVisitLog, User), the outbound-response cache installed at import,   *)
(* the clock the cache reads, and the last request/response pair.  Every   *)
(* handler is one atomic action: the views spawn no background work.       *)
(***************************************************************************)
EXTENDS Integers, Sequences, FiniteSets, TLC

(***************************************************************************)
(* Bounds of the model.                                                    *)
(***************************************************************************)
NumCities == 6      \* rows of the City table
MaxLogs == 3        \* CityVisitLog rows a run may insert
MaxLimit == 2       \* largest explicit no_of_cities tried besides the default
MaxTrips == 2       \* Trip rows of a drawn Trip table
MaxDay == 9         \* last day of the clock

(***************************************************************************)
(* Program constants.                                                      *)
(***************************************************************************)
DefaultNoOfCities == 8
PrefixLimit == 5
ExpireAfterDays == 7
HTTP_200_OK == 200
HTTP_201_CREATED == 201
HTTP_400_BAD_REQUEST == 400
HTTP_404_NOT_FOUND == 404
HTTP_503_SERVICE_UNAVAILABLE == 503

None == "None"              \* Python None: an absent parameter, a null column
NoBody == "NoBody"          \* Response(status=...) without data
NoUserId == 0               \* user_id=None: no explicit user id in the route
NoEntry == [absent |-> TRUE]    \* no row under a key

Cities == 1..NumCities      \* primary keys of the City table
Users == {1, 2}             \* primary keys of the User table
NoSuchCity == NumCities + 3 \* an id that is no City primary key
NoSuchUser == Cardinality(Users) + 1             \* an id that is no User primary key

Min(a, b) == IF a <= b THEN a ELSE b

(***************************************************************************)
(* Text.  A string is a sequence of one-character strings, so that the     *)
(* case folding of istartswith is computed and not assumed.                *)
(***************************************************************************)
Lower(ch) ==
    CASE ch = "P" -> "p"
      [] ch = "A" -> "a"
      [] ch = "R" -> "r"
      [] OTHER -> ch

LowerStr(s) == [i \in DOMAIN s |-> Lower(s[i])]

\* Variant: startswith, the case kept.
IStartsWithExact(s, p) ==
    /\ Len(p) <= Len(s)
    /\ SubSeq(s, 1, Len(p)) = p

\* city_name__istartswith=city_prefix
IStartsWith(s, p) ==
    /\ Len(p) <= Len(s)
    /\ LowerStr(SubSeq(s, 1, Len(p))) = LowerStr(p)

CityNames == {<<"P", "a">>, <<"p", "A", "r">>, <<"R", "o">>}

Prefixes == {<< >>, <<"p">>, <<"P", "A">>, <<"r">>, <<"a">>, <<"p", "a", "r", "i">>}

\* The fixture store: names repeat with period three.
DefaultName(c) ==
    CASE c % 3 = 1 -> <<"P", "a">>
      [] c % 3 = 2 -> <<"p", "A", "r">>
      [] OTHER -> <<"R", "o">>

VARIABLES
    city,           \* City table: id -> [city_name, nickname]
    trips,          \* Trip table: sequence of [city, users]
    logs,           \* CityVisitLog table: sequence of [city, user, at]
    images,         \* CityImage table: sequence of [city, image]
    facts,          \* CityFact table: sequence of [city, fact]
    cache,          \* outbound cache: url key -> NoEntry or [response, created]
    now,            \* the clock, in days
    req,            \* the last request: handler and inputs
    resp,           \* the last response: [status, body]
    saveAttempts,   \* CityVisitLog.save() calls made by the last request
    netCalls,       \* network requests made by the last request
    nickSet,        \* per city: the nickname of the last 201 update, or None
    fetched         \* per url key: [at, code] of the last network response, or NoEntry

vars == <<city, trips, logs, images, facts, cache, now, req, resp, saveAttempts, netCalls,
          nickSet, fetched>>

store == <<city, trips, logs, images, facts>>

(***************************************************************************)
(* Store queries and projections.                                          *)
(***************************************************************************)
\* City.objects.get(pk=...) finds a row
CityExists(city_id) == city_id \in Cities

\* Variant: the city filter dropped.
HasVisitedAny(city_id, user) ==
    \E i \in DOMAIN trips : user \in trips[i].users

\* Trip.objects.filter(city=city, users=request.user).exists()
HasVisited(city_id, user) ==
    \E i \in DOMAIN trips : trips[i].city = city_id /\ user \in trips[i].users

\* CitySerializer: the full projection
CitySerializer(city_id, has_visited) ==
    [id |-> city_id,
     city_name |-> city[city_id].city_name,
     nickname |-> city[city_id].nickname,
     has_visited |-> has_visited]

\* CityCondensedSerializer: the projection of list views
CityCondensedSerializer(city_id) ==
    [id |-> city_id, city_name |-> city[city_id].city_name]

Condensed(ids) == [i \in DOMAIN ids |-> CityCondensedSerializer(ids[i])]

\* Count('logs'): the visit-log rows stored for a city
VisitCount(city_id) ==
    Cardinality({i \in DOMAIN logs : logs[i].city = city_id})

\* Row orders the store may hand out where the query states none.
IdOrder == [i \in 1..NumCities |-> i]

ReverseIdOrder == [i \in 1..NumCities |-> NumCities + 1 - i]

StoreOrders == {IdOrder, ReverseIdOrder}

\* seq[:n]
Slice(seq, n) == SubSeq(seq, 1, Min(n, Len(seq)))

\* Variant: order_by('visit_count'), ascending.
RECURSIVE InsertAsc(_, _)
InsertAsc(sorted, c) ==
    IF sorted = << >> THEN <<c>>
    ELSE IF VisitCount(sorted[Len(sorted)]) <= VisitCount(c)
         THEN Append(sorted, c)
         ELSE Append(InsertAsc(SubSeq(sorted, 1, Len(sorted) - 1), c),
                     sorted[Len(sorted)])

\* Insert c behind every row whose count is at least its own: rows of equal
\* count keep the order the store gave them.
RECURSIVE InsertDesc(_, _)
InsertDesc(sorted, c) ==
    IF sorted = << >> THEN <<c>>
    ELSE IF VisitCount(sorted[Len(sorted)]) >= VisitCount(c)
         THEN Append(sorted, c)
         ELSE Append(InsertDesc(SubSeq(sorted, 1, Len(sorted) - 1), c),
                     sorted[Len(sorted)])

RECURSIVE OrderByVisitCountAsc(_)
OrderByVisitCountAsc(rows) ==
    IF rows = << >> THEN << >>
    ELSE InsertAsc(OrderByVisitCountAsc(SubSeq(rows, 1, Len(rows) - 1)),
                   rows[Len(rows)])

\* .annotate(visit_count=Count('logs')).order_by('-visit_count')
RECURSIVE OrderByVisitCountDesc(_)
OrderByVisitCountDesc(rows) ==
    IF rows = << >> THEN << >>
    ELSE InsertDesc(OrderByVisitCountDesc(SubSeq(rows, 1, Len(rows) - 1)),
                    rows[Len(rows)])

(***************************************************************************)
(* Initial states.                                                         *)
(***************************************************************************)
DefaultTrips ==
    <<[city |-> 1, users |-> {1}],
      [city |-> 1, users |-> {1, 2}],
      [city |-> 2, users |-> {1}]>>

InitRest ==
    /\ logs = << >>
    /\ images = <<[city |-> 1, image |-> "a.png"], [city |-> 2, image |-> "b.png"],
                  [city |-> 1, image |-> "c.png"]>>
    /\ facts = <<[city |-> 2, fact |-> "f1"], [city |-> 1, fact |-> "f2"]>>
    /\ cache = [u \in CityNames |-> NoEntry]
    /\ now = 0
    /\ req = [op |-> "none"]
    /\ resp = [status |-> 0, body |-> NoBody]
    /\ saveAttempts = 0
    /\ netCalls = 0
    /\ nickSet = [c \in Cities |-> None]
    /\ fetched = [u \in CityNames |-> NoEntry]

Init ==
    /\ city = [c \in Cities |-> [city_name |-> DefaultName(c), nickname |-> None]]
    /\ trips = DefaultTrips
    /\ InitRest

(***************************************************************************)
(* get_all_cities                                                          *)
(***************************************************************************)
TopLimits == (0..MaxLimit) \cup {DefaultNoOfCities}

GetAllCities(no_of_cities, order) ==
    /\ req' = [op |-> "get_all_cities", no_of_cities |-> no_of_cities]
    /\ resp' = [status |-> HTTP_200_OK,
                body |-> Condensed(Slice(OrderByVisitCountDesc(order), no_of_cities))]
    /\ saveAttempts' = 0
    /\ netCalls' = 0
    /\ UNCHANGED <<store, cache, now, nickSet, fetched>>

(***************************************************************************)
(* get_city                                                                *)
(***************************************************************************)
VisitIds == {1, 2, NoSuchCity}

\* Variant: the row saved for another city.
LogSavedOther(city_id, user) ==
    Append(logs, [city |-> IF city_id = 1 THEN 2 ELSE 1, user |-> user, at |-> now])

\* The table after CityVisitLog(city=city, user=request.user).save()
LogSaved(city_id, user) ==
    Append(logs, [city |-> city_id, user |-> user, at |-> now])

\* Variant: the exception of the visit-log save not swallowed.
GetCityFoundFailing(city_id, user, save_ok) ==
    IF save_ok
    THEN [status |-> HTTP_200_OK, body |-> CitySerializer(city_id, HasVisited(city_id, user))]
    ELSE [status |-> HTTP_400_BAD_REQUEST, body |-> NoBody]

\* The response once the visit-log try block has run, whatever its outcome.
GetCityFound(city_id, user, save_ok) ==
    [status |-> HTTP_200_OK, body |-> CitySerializer(city_id, HasVisited(city_id, user))]

\* Whether CityVisitLog.save() succeeds is an input of the calls that reach it.
VisitLogOutcomes(city_id) == IF CityExists(city_id) THEN BOOLEAN ELSE {TRUE}

GetCity(city_id, user, save_ok) ==
    /\ req' = [op |-> "get_city", city_id |-> city_id, user |-> user,
               save_ok |-> save_ok]
    /\ netCalls' = 0
    /\ IF ~CityExists(city_id)
       THEN /\ resp' = [status |-> HTTP_404_NOT_FOUND, body |-> NoBody]
            /\ saveAttempts' = 0
            /\ logs' = logs
       ELSE /\ save_ok => Len(logs) < MaxLogs
            /\ saveAttempts' = 1
            /\ logs' = IF save_ok THEN LogSaved(city_id, user) ELSE logs
            /\ resp' = GetCityFound(city_id, user, save_ok)
    /\ UNCHANGED <<city, trips, images, facts, cache, now, nickSet, fetched>>

(***************************************************************************)
(* get_city_by_name                                                        *)
(***************************************************************************)
\* City.objects.filter(city_name__istartswith=city_prefix), in store order
Matches(order, city_prefix) ==
    SelectSeq(order, LAMBDA c : IStartsWith(city[c].city_name, city_prefix))

GetCityByName(city_prefix, order) ==
    /\ req' = [op |-> "get_city_by_name", city_prefix |-> city_prefix]
    /\ resp' = [status |-> HTTP_200_OK,
                body |-> Condensed(Slice(Matches(order, city_prefix), PrefixLimit))]
    /\ saveAttempts' = 0
    /\ netCalls' = 0
    /\ UNCHANGED <<store, cache, now, nickSet, fetched>>

(***************************************************************************)
(* get_all_city_images, get_all_city_facts                                 *)
(***************************************************************************)
\* CityImageSerializer, CityFactSerializer: the row without its key
CityImageSerializer(row) == [image |-> row.image]

CityFactSerializer(row) == [fact |-> row.fact]

GetAllCityImages(city_id) ==
    LET city_images == SelectSeq(images, LAMBDA r : r.city = city_id)
    IN  /\ req' = [op |-> "get_all_city_images", city_id |-> city_id]
        /\ resp' = [status |-> HTTP_200_OK,
                    body |-> [i \in DOMAIN city_images |->
                                 CityImageSerializer(city_images[i])]]
        /\ saveAttempts' = 0
        /\ netCalls' = 0
        /\ UNCHANGED <<store, cache, now, nickSet, fetched>>

GetAllCityFacts(city_id) ==
    LET city_facts == SelectSeq(facts, LAMBDA r : r.city = city_id)
    IN  /\ req' = [op |-> "get_all_city_facts", city_id |-> city_id]
        /\ resp' = [status |-> HTTP_200_OK,
                    body |-> [i \in DOMAIN city_facts |->
                                 CityFactSerializer(city_facts[i])]]
        /\ saveAttempts' = 0
        /\ netCalls' = 0
        /\ UNCHANGED <<store, cache, now, nickSet, fetched>>

(***************************************************************************)
(* get_visited_city                                                        *)
(***************************************************************************)
VisitedUserIds == {NoUserId} \cup Users \cup {NoSuchUser}

\* if not user_id: user_id = request.user.id
TargetUser(user_id, requester) == IF user_id = NoUserId THEN requester ELSE user_id

\* User.objects.filter(id=user_id).exists()
UserExists(user_id) == user_id \in Users

\* Trip.objects.filter(users=user_id)
TripsOf(user_id) == SelectSeq(trips, LAMBDA t : user_id \in t.users)

\* Variant: a list in place of the set, one entry per trip.
VisitedCitiesList(user_id, order) ==
    LET user_trips == TripsOf(user_id)
    IN  [i \in DOMAIN user_trips |-> user_trips[i].city]

\* cities = set(); for trip in trips: cities.add(trip.city), then iterated
\* in the order the set hands out.
VisitedCities(user_id, order) ==
    LET user_trips == TripsOf(user_id)
        cities == {user_trips[i].city : i \in DOMAIN user_trips}
    IN  SelectSeq(order, LAMBDA c : c \in cities)

GetVisitedCity(user_id, requester, order) ==
    LET target == TargetUser(user_id, requester)
    IN  /\ req' = [op |-> "get_visited_city", user_id |-> user_id,
                   user |-> requester]
        /\ resp' = IF ~UserExists(target)
                   THEN [status |-> HTTP_404_NOT_FOUND, body |-> "User does not exists."]
                   ELSE [status |-> HTTP_200_OK,
                         body |-> Condensed(VisitedCities(target, order))]
        /\ saveAttempts' = 0
        /\ netCalls' = 0
        /\ UNCHANGED <<store, cache, now, nickSet, fetched>>

(***************************************************************************)
(* add_city_nickname                                                       *)
(***************************************************************************)
PostCityIds == {None, "", "1", "2", "9", "x"}

PostNicknames == {None, "", "Y", "Z"}

\* pk=city_id: the posted text must read as a number, or the lookup raises
\* an error that is not City.DoesNotExist.
IsNumber(city_id) == city_id \in {"1", "2", "9"}

\* The primary key a posted city_id converts to.
PkOf(city_id) ==
    CASE city_id = "1" -> 1
      [] city_id = "2" -> 2
      [] OTHER -> NoSuchCity

\* Python truth of request.POST.get(key, None)
Truthy(value) == value # None /\ value # ""

\* Variant: the nickname saved on the first row.
NicknameSavedFirst(pk, nickname) == [city EXCEPT ![1].nickname = nickname]

\* The table after city.nickname = nickname; city.save()
NicknameSaved(pk, nickname) == [city EXCEPT ![pk].nickname = nickname]

MissingParameters ==
    [status |-> HTTP_400_BAD_REQUEST,
     body |-> "Missing parameters in request. Send city_id, nickname"]

\* Variant: the city looked up before the parameters are validated.
AddCityNicknameLookupFirst(city_id, nickname, save_ok) ==
    IF Truthy(city_id) /\ ~IsNumber(city_id)
    THEN [status |-> HTTP_400_BAD_REQUEST, body |-> "str(e)"]
    ELSE IF ~CityExists(PkOf(city_id))
    THEN [status |-> HTTP_404_NOT_FOUND, body |-> <<"City does not exist">>]
    ELSE IF ~Truthy(city_id) \/ ~Truthy(nickname)
    THEN MissingParameters
    ELSE IF ~save_ok
    THEN [status |-> HTTP_400_BAD_REQUEST, body |-> "str(e)"]
    ELSE [status |-> HTTP_201_CREATED, body |-> "Successfully added nickname."]

\* The answer: parameters validated, then the lookup and the save in one try.
AddCityNicknameResponse(city_id, nickname, save_ok) ==
    IF ~Truthy(city_id) \/ ~Truthy(nickname)
    THEN MissingParameters
    ELSE IF ~IsNumber(city_id)
    THEN [status |-> HTTP_400_BAD_REQUEST, body |-> "str(e)"]
    ELSE IF ~CityExists(PkOf(city_id))
    THEN [status |-> HTTP_404_NOT_FOUND, body |-> <<"City does not exist">>]
    ELSE IF ~save_ok
    THEN [status |-> HTTP_400_BAD_REQUEST, body |-> "str(e)"]
    ELSE [status |-> HTTP_201_CREATED, body |-> "Successfully added nickname."]

\* Whether city.save() succeeds is an input of the calls that reach it.
NicknameSaveOutcomes(city_id, nickname) ==
    IF Truthy(city_id) /\ Truthy(nickname) /\ IsNumber(city_id)
       /\ CityExists(PkOf(city_id))
    THEN BOOLEAN ELSE {TRUE}

AddCityNickname(city_id, nickname, save_ok) ==
    LET r == AddCityNicknameResponse(city_id, nickname, save_ok)
        created == r.status = HTTP_201_CREATED
    IN  /\ req' = [op |-> "add_city_nickname", city_id |-> city_id,
                   nickname |-> nickname, save_ok |-> save_ok]
        /\ resp' = r
        /\ city' = IF created THEN NicknameSaved(PkOf(city_id), nickname) ELSE city
        /\ nickSet' = IF created THEN [nickSet EXCEPT ![PkOf(city_id)] = nickname]
                      ELSE nickSet
        /\ saveAttempts' = 0
        /\ netCalls' = 0
        /\ UNCHANGED <<trips, logs, images, facts, cache, now, fetched>>

(***************************************************************************)
(* get_city_information                                                    *)
(***************************************************************************)
InfoIds == {1, 2, NoSuchCity}

\* requests.get raises: no response at all
Unreachable == [raised |-> "ConnectionError"]

\* Bodies the encyclopedia may answer with.
NotJson == [raw |-> "<html>"]
NoQuery == [batchcomplete |-> ""]
NoPages == [query |-> [pages |-> << >>]]
NoExtract == [query |-> [pages |-> <<[title |-> "t", missing |-> ""]>>]]
WithExtract == [query |-> [pages |-> <<[title |-> "t", extract |-> "== H ==text"]>>]]

WikiBodies == {NotJson, NoQuery, NoPages, NoExtract, WithExtract}

NetOutcomes ==
    {Unreachable}
    \cup {[code |-> HTTP_200_OK, body |-> b] : b \in WikiBodies}
    \cup {[code |-> HTTP_503_SERVICE_UNAVAILABLE, body |-> b] : b \in {NotJson, WithExtract}}

\* api.commonresponses.DOWNSTREAM_ERROR_RESPONSE
DOWNSTREAM_ERROR_RESPONSE ==
    [status |-> HTTP_503_SERVICE_UNAVAILABLE, body |-> "downstream error"]

\* api.modules.city.utils
clean_wiki_extract(extract) == [text |-> extract, clean |-> TRUE]

extract_as_dict(extract) == [sections |-> extract.text]

\* The key of the cached request: the URL, which varies in city_name only.
WikiUrl(city_id) == city[city_id].city_name

\* Variant: no cache installed.
IsFreshNever(entry) == FALSE

\* An entry saved more than expire_after ago is expired.
IsFresh(entry) == entry # NoEntry /\ now - entry.created <= ExpireAfterDays

\* The cache after a request that went to the network.  install_cache is
\* given expire_after only, so the library's defaults stand: an expired entry
\* is dropped before sending, and the answer is saved only if its status is
\* 200 (allowable_codes); a request that raised leaves nothing to save.
CacheAfterSend(url, net) ==
    IF net # Unreachable /\ net.code = HTTP_200_OK
    THEN [cache EXCEPT ![url] = [response |-> net, created |-> now]]
    ELSE [cache EXCEPT ![url] = NoEntry]

\* Variant: whatever parsed is returned when the expected fields are absent.
WikiDetailPartial(api_response) ==
    IF api_response = Unreachable THEN DOWNSTREAM_ERROR_RESPONSE
    ELSE IF api_response.body = NotJson THEN DOWNSTREAM_ERROR_RESPONSE
    ELSE [status |-> HTTP_200_OK, body |-> api_response.body]

\* api_response.json() down to city_detail, or the except branch
WikiDetail(api_response) ==
    IF api_response = Unreachable THEN DOWNSTREAM_ERROR_RESPONSE
    ELSE LET data == api_response.body
         IN  IF data = NotJson THEN DOWNSTREAM_ERROR_RESPONSE
             ELSE IF "query" \notin DOMAIN data THEN DOWNSTREAM_ERROR_RESPONSE
             ELSE IF data.query.pages = << >> THEN DOWNSTREAM_ERROR_RESPONSE
             ELSE LET page == data.query.pages[1]
                  IN  IF "extract" \notin DOMAIN page THEN DOWNSTREAM_ERROR_RESPONSE
                      ELSE [status |-> HTTP_200_OK,
                            body |-> extract_as_dict(clean_wiki_extract(page.extract))]

GetCityInformation(city_id, net) ==
    /\ saveAttempts' = 0
    /\ IF ~CityExists(city_id)
       THEN /\ req' = [op |-> "get_city_information", city_id |-> city_id]
            /\ resp' = [status |-> HTTP_404_NOT_FOUND, body |-> "City does not exist"]
            /\ netCalls' = 0
            /\ UNCHANGED <<cache, fetched>>
       ELSE LET url == WikiUrl(city_id)
                hit == IsFresh(cache[url])
                api_response == IF hit THEN cache[url].response ELSE net
            IN  /\ req' = [op |-> "get_city_information", city_id |-> city_id,
                           api_response |-> api_response]
                /\ netCalls' = IF hit THEN 0 ELSE 1
                /\ cache' = IF hit THEN cache ELSE CacheAfterSend(url, net)
                /\ fetched' = IF hit \/ net = Unreachable THEN fetched
                              ELSE [fetched EXCEPT ![url] = [at |-> now, code |-> net.code]]
                /\ resp' = WikiDetail(api_response)
    /\ UNCHANGED <<store, now, nickSet>>

\* A day passes.
Tick ==
    /\ now < MaxDay
    /\ now' = now + 1
    /\ UNCHANGED <<store, cache, req, resp, saveAttempts, netCalls, nickSet, fetched>>

(***************************************************************************)
(* Specifications.                                                         *)
(***************************************************************************)
\* Every handler.  The handlers that have a specification of their own below
\* draw their inputs here from sets that still reach each of their branches.
Next ==
    \/ \E n \in TopLimits, o \in StoreOrders : GetAllCities(n, o)
    \/ \E c \in VisitIds, u \in Users :
          \E ok \in VisitLogOutcomes(c) : GetCity(c, u, ok)
    \/ \E o \in StoreOrders : GetCityByName(<<"p">>, o)
    \/ \E c \in {1, NoSuchCity} : GetAllCityImages(c)
    \/ \E c \in {1, NoSuchCity} : GetAllCityFacts(c)
    \/ \E c \in {1, NoSuchCity},
          net \in {Unreachable, [code |-> HTTP_200_OK, body |-> WithExtract]} :
          GetCityInformation(c, net)
    \/ \E t \in {NoUserId, NoSuchUser}, u \in Users : GetVisitedCity(t, u, IdOrder)
    \/ \E c \in PostCityIds, n \in PostNicknames :
          \E ok \in NicknameSaveOutcomes(c, n) : AddCityNickname(c, n, ok)

Spec == Init /\ [][Next]_vars

\* The enrichment handler with the clock running.
NextInfo ==
    \/ \E c \in InfoIds, net \in NetOutcomes : GetCityInformation(c, net)
    \/ Tick

SpecInfo == Init /\ [][NextInfo]_vars

\* Prefix search over every naming of the City rows.
InitSearch ==
    /\ city \in [Cities -> {[city_name |-> n, nickname |-> None] : n \in CityNames}]
    /\ trips = DefaultTrips
    /\ InitRest

NextSearch == \E p \in Prefixes, o \in StoreOrders : GetCityByName(p, o)

SpecSearch == InitSearch /\ [][NextSearch]_vars

\* Visited cities over every Trip table of up to MaxTrips rows.
TripRows == {[city |-> c, users |-> U] : c \in {1, 2}, U \in {{1}, {2}, {1, 2}}}

TripTables == UNION {[1..n -> TripRows] : n \in 0..MaxTrips}

InitVisited ==
    /\ city = [c \in Cities |-> [city_name |-> DefaultName(c), nickname |-> None]]
    /\ trips \in TripTables
    /\ InitRest

NextVisited ==
    \E t \in VisitedUserIds, u \in Users, o \in StoreOrders : GetVisitedCity(t, u, o)

SpecVisited == InitVisited /\ [][NextVisited]_vars

(***************************************************************************)
(* Properties.                                                             *)
(***************************************************************************)
\* What get-by-id owes for an existing city: the row's fields as stored and
\* whether some trip of the requesting user is to this city.
FullProjection(city_id, user) ==
    [id |-> city_id,
     city_name |-> city[city_id].city_name,
     nickname |-> city[city_id].nickname,
     has_visited |-> \E i \in DOMAIN trips :
                        trips[i].city = city_id /\ user \in trips[i].users]

\* C1: get-by-id answers 200 with the city's full projection when the id is
\* the primary key of a City row, and 404 when it matches none.
C1_GetCityFoundOrNotFound ==
    req.op = "get_city" =>
        IF req.city_id \in DOMAIN city
        THEN resp.status = HTTP_200_OK
             /\ resp.body = FullProjection(req.city_id, req.user)
        ELSE resp.status = HTTP_404_NOT_FOUND

\* C1 witness: user 2 fetched city 2, which only user 1 has a trip to.
C1_Witness ==
    /\ req.op = "get_city"
    /\ req.city_id = 2
    /\ req.user = 2
    /\ resp.status = HTTP_200_OK
    /\ resp.body.has_visited = FALSE
    /\ resp.body.nickname = "Z"

\* C2: for an existing city the visit-log save is tried exactly once and the
\* answer is 200 with the projection whether that save succeeded or failed.
C2_LogFailureSwallowed ==
    (req.op = "get_city" /\ req.city_id \in DOMAIN city) =>
        /\ saveAttempts = 1
        /\ resp = [status |-> HTTP_200_OK,
                   body |-> FullProjection(req.city_id, req.user)]

\* C2 witness: a get-by-id whose visit-log save failed, after one that saved.
C2_Witness ==
    /\ req.op = "get_city"
    /\ req.city_id \in DOMAIN city
    /\ ~req.save_ok
    /\ saveAttempts = 1
    /\ Len(logs) = 1
    /\ resp.status = HTTP_200_OK

\* C3: once a nickname update for a city has answered 201, get-by-id for that
\* city reports the nickname of the latest such update, whatever ran between.
C3_NicknameReflected ==
    (req.op = "get_city" /\ req.city_id \in DOMAIN city
        /\ nickSet[req.city_id] # None) =>
        /\ resp.status = HTTP_200_OK
        /\ resp.body.nickname = nickSet[req.city_id]

\* C3 witness: city 1 was named "Y", city 2 was named "Z" afterwards or
\* before, and get-by-id for city 1 ran last.
C3_Witness ==
    /\ req.op = "get_city"
    /\ req.city_id = 1
    /\ nickSet[1] = "Y"
    /\ nickSet[2] = "Z"
    /\ resp.body.nickname = "Y"

\* The answers of add_city_nickname, given which parameters count as missing.
NicknameContract(missing) ==
    req.op = "add_city_nickname" =>
        LET no_id == req.city_id \in missing
            no_nick == req.nickname \in missing
            pk == PkOf(req.city_id)
        IN  /\ (no_id \/ no_nick) => resp.status = HTTP_400_BAD_REQUEST
            /\ (~no_id /\ ~no_nick /\ pk \notin DOMAIN city) =>
                   resp.status = HTTP_404_NOT_FOUND
            /\ (~no_id /\ ~no_nick /\ pk \in DOMAIN city /\ ~req.save_ok) =>
                   (resp.status = HTTP_400_BAD_REQUEST /\ resp.body = "str(e)")
            /\ resp.status = HTTP_201_CREATED =>
                   (pk \in DOMAIN city /\ req.save_ok
                    /\ city[pk].nickname = req.nickname)

\* C4 as stated: 400 when city_id or nickname is absent from the body, 404
\* when both are in the body and no city has the id, 400 with the error text
\* when the save fails, 201 only when the nickname was persisted.
C4_AsStated == NicknameContract({None})

\* C4 amended: 400 when city_id or nickname is absent or empty, before any
\* lookup; 404 when both are non-empty, city_id reads as a number and no
\* city has it; 400 with the error text when city_id does not read as a
\* number or the save fails; 201 only when the nickname was persisted.
C4_NicknameStatuses ==
    req.op = "add_city_nickname" =>
        LET no_id == req.city_id \in {None, ""}
            no_nick == req.nickname \in {None, ""}
            number == req.city_id \in {"1", "2", "9"}
            pk == PkOf(req.city_id)
        IN  /\ (no_id \/ no_nick) => resp = MissingParameters
            /\ (~no_id /\ ~no_nick /\ number /\ pk \notin DOMAIN city) =>
                   resp.status = HTTP_404_NOT_FOUND
            /\ (~no_id /\ ~no_nick /\ (~number \/ (pk \in DOMAIN city /\ ~req.save_ok))) =>
                   (resp.status = HTTP_400_BAD_REQUEST /\ resp.body = "str(e)")
            /\ resp.status = HTTP_201_CREATED =>
                   (pk \in DOMAIN city /\ req.save_ok
                    /\ city[pk].nickname = req.nickname)

\* C4 witness: an empty nickname for a city that does not exist was refused
\* as a bad request.
C4_Witness ==
    /\ req.op = "add_city_nickname"
    /\ req.city_id = "9"
    /\ req.nickname = ""
    /\ resp.status = HTTP_400_BAD_REQUEST

\* The visit-log rows stored for a city.
StoredVisits(c) == Cardinality({i \in DOMAIN logs : logs[i].city = c})

\* C5: list-top-cities returns at most the requested number of cities, in
\* non-increasing order of stored visit-log rows, each city once, and leaves
\* out no city with strictly more rows than one it returns.
C5_TopCities ==
    req.op = "get_all_cities" =>
        LET body == resp.body
            returned == {body[i].id : i \in DOMAIN body}
        IN  /\ resp.status = HTTP_200_OK
            /\ Len(body) <= req.no_of_cities
            /\ Cardinality(returned) = Len(body)
            /\ returned \subseteq DOMAIN city
            /\ \A i, j \in DOMAIN body :
                   i < j => StoredVisits(body[i].id) >= StoredVisits(body[j].id)
            /\ \A c \in DOMAIN city \ returned : \A r \in returned :
                   StoredVisits(c) <= StoredVisits(r)

\* C5 witness: city 2 has more visits than city 1, which has some, and a
\* limit of 1 returned city 2 alone.
C5_Witness ==
    /\ req.op = "get_all_cities"
    /\ req.no_of_cities = 1
    /\ StoredVisits(2) > StoredVisits(1)
    /\ StoredVisits(1) > 0
    /\ Len(resp.body) = 1
    /\ resp.body[1].id = 2

\* C10: no step modifies or deletes a CityVisitLog or Trip row or inserts a
\* Trip; the only change is get-by-id on an existing city appending one
\* visit-log row for that city and the requesting user.
C10_AppendOnly ==
    [][/\ trips' = trips
       /\ \/ logs' = logs
          \/ /\ req'.op = "get_city"
             /\ req'.city_id \in DOMAIN city
             /\ logs' = Append(logs, [city |-> req'.city_id, user |-> req'.user,
                                      at |-> now])
       /\ (req'.op = "get_city" /\ req'.city_id \notin DOMAIN city) => logs' = logs
       /\ req'.op # "get_city" => logs' = logs]_vars

\* C10 witness: two visit-log rows are stored, the second appended by the
\* get-by-id that ran last.
C10_Witness ==
    /\ req.op = "get_city"
    /\ req.save_ok
    /\ Len(logs) = 2
    /\ logs[2].city = req.city_id
    /\ logs[2].user = req.user
    /\ logs[1].city # logs[2].city

\* Whether name starts with prefix once both are folded to one case.
FoldedPrefix(name, prefix) ==
    /\ Len(prefix) <= Len(name)
    /\ \A k \in 1..Len(prefix) : Lower(name[k]) = Lower(prefix[k])

\* C6: prefix search returns at most 5 cities, each once, every one with a
\* name that starts with the prefix case-insensitively and as stored, and
\* all of the matching cities when there are 5 or fewer.
C6_PrefixSearch ==
    req.op = "get_city_by_name" =>
        LET body == resp.body
            returned == {body[i].id : i \in DOMAIN body}
            matching == {c \in DOMAIN city :
                            FoldedPrefix(city[c].city_name, req.city_prefix)}
        IN  /\ resp.status = HTTP_200_OK
            /\ Len(body) <= PrefixLimit
            /\ Cardinality(returned) = Len(body)
            /\ returned \subseteq matching
            /\ \A i \in DOMAIN body : body[i].city_name = city[body[i].id].city_name
            /\ Cardinality(matching) <= PrefixLimit => returned = matching

\* C6 witness: more than 5 cities match a prefix that differs from their
\* names in case, some city does not match, and 5 are returned.
C6_Witness ==
    /\ req.op = "get_city_by_name"
    /\ req.city_prefix = <<"P", "A">>
    /\ Cardinality({c \in DOMAIN city : city[c].city_name = <<"p", "A", "r">>}) = 3
    /\ Cardinality({c \in DOMAIN city : city[c].city_name = <<"P", "a">>}) = 2
    /\ Len(resp.body) = PrefixLimit

C8_EnrichmentStatuses ==
    req.op = "get_city_information" =>
        IF req.city_id \notin DOMAIN city
        THEN resp.status = HTTP_404_NOT_FOUND /\ netCalls = 0
        ELSE LET r == req.api_response
                 complete == r # Unreachable /\ r.body = WithExtract
             IN  IF complete
                 THEN /\ resp.status = HTTP_200_OK
                      /\ resp.body = [sections |-> r.body.query.pages[1].extract]
                 ELSE resp = DOWNSTREAM_ERROR_RESPONSE

\* C8 witness: the encyclopedia was unreachable and the answer is the
\* generic 503.
C8_Witness ==
    /\ req.op = "get_city_information"
    /\ req.city_id \in DOMAIN city
    /\ req.api_response = Unreachable
    /\ netCalls = 1
    /\ resp = DOWNSTREAM_ERROR_RESPONSE

\* A step of get_city_information for an existing city whose url some
\* network response was fetched for, with the given codes, at most 7 days ago.
RepeatWithin(codes) ==
    /\ now' = now
    /\ req'.op = "get_city_information"
    /\ req'.city_id \in DOMAIN city
    /\ fetched[city[req'.city_id].city_name] # NoEntry
    /\ fetched[city[req'.city_id].city_name].code \in codes
    /\ now - fetched[city[req'.city_id].city_name].at <= ExpireAfterDays

\* C9 as stated: once a lookup has fetched a response from the network, no
\* lookup for that city within 7 days of the fetch makes a network request.
C9_AsStated ==
    [][RepeatWithin({HTTP_200_OK, HTTP_503_SERVICE_UNAVAILABLE}) =>
          (netCalls' = 0 /\ cache' = cache)]_vars

\* C9 amended: once a lookup has fetched a response with status 200 from the
\* network, no lookup for that city within 7 days of the fetch makes a
\* network request: each is answered from the cache, as the fetch was.
C9_CachedSevenDays ==
    [][RepeatWithin({HTTP_200_OK}) =>
          /\ netCalls' = 0
          /\ cache' = cache
          /\ fetched' = fetched
          /\ req'.api_response = cache[city[req'.city_id].city_name].response]_vars

\* C9 witness: a lookup was answered from the cache on the seventh day after
\* the fetch.
C9_Witness ==
    /\ req.op = "get_city_information"
    /\ req.city_id \in DOMAIN city
    /\ netCalls = 0
    /\ fetched[city[req.city_id].city_name] # NoEntry
    /\ now - fetched[city[req.city_id].city_name].at = ExpireAfterDays

====
